---- MODULE Spec2Model ----
(***************************************************************************)
(* Task-management backend (backend/app): the Lambda-style handlers of     *)
(* main.py, the auth service of auth.py, the validation models of          *)
(* models.py, the repositories and bootstrap of db.py, the response        *)
(* formatter of utils.py and the statistics route of api.py.               *)
(*                                                                         *)
(* Conventions.  A Python Optional value is a tuple: None is <<>> and a    *)
(* present value x is <<x>>.  A JSON object is a function from its keys;   *)
(* a JSON string value s is <<s>> and JSON null is <<>>.  A header value   *)
(* is <<prefix, credential>>.  The clock `now` counts ticks, with          *)
(* TicksPerSecond ticks to the second, so that instants between two whole  *)
(* seconds exist.                                                          *)
(***************************************************************************)
EXTENDS Integers, Sequences, FiniteSets, TLC

VARIABLES
    users,      \* users_collection: set of user documents
    tasks,      \* tasks_collection: function ObjectId -> task document
    nextId,     \* the next ObjectId the store generates
    now,        \* datetime.utcnow(), in ticks
    booted,     \* app.db has been imported (init_db has run)
    token,      \* the bearer token the client holds (Optional)
    tokenIat,   \* the instant at which that token was issued
    handler,    \* the handler the last request went to
    req,        \* the last request: its event and where the store raised
    resp,       \* the response of the last request
    calls,      \* the store operations the last request performed, in order
    requests,   \* the overlapping requests: for each, how far it has got
    applied     \* the find_one_and_update calls that matched, in store order

vars == <<users, tasks, nextId, now, booted, token, tokenIat, handler, req, resp,
          calls, requests, applied>>

\* the requests that overlap
overlap == <<requests, applied>>

-----------------------------------------------------------------------------
(* Bounds of the model *)

MaxTicks == 1          \* single ticks the clock takes between two long steps
MaxJumps == 1          \* long steps of the clock
MaxNewTasks == 1       \* tasks created beyond the three seeded ones
TicksPerSecond == 2    \* resolution of the clock
MaxRequests == 3      \* requests that overlap

(* Program constants *)

JWT_EXPIRATION == 24       \* hours
SecondsPerHour == 3600     \* timedelta(hours=...)

TASK_STATUS == {"todo", "in_progress", "completed"}
JWT_SECRET == "your-secret-key-for-development"

None == <<>>
Some(x) == <<x>>

EmptyObj == [k \in {} |-> None]

\* dict.get(key)
Get(d, k) == IF k \in DOMAIN d THEN d[k] ELSE None

\* Python truthiness of an Optional[str] taken from a JSON object
Falsy(v) == v = None \/ v = Some("")

-----------------------------------------------------------------------------
(* utils.py *)

format_response(status_code, body) ==
    [statusCode |-> status_code, body |-> body]

success_response(data, status_code) == format_response(status_code, data)

error_response(message, status_code) ==
    format_response(status_code, [error |-> [message |-> message]])

\* An exception that leaves the handler: no response is formatted.
Raised(what) == [statusCode |-> 0, body |-> [raised |-> what]]

\* A raw event body is [json |-> is it parseable JSON text, obj |-> the object]
parse_event_body(raw) == IF raw.json THEN raw.obj ELSE EmptyObj

-----------------------------------------------------------------------------
(* models.py *)

\* TaskCreate without its status validator
TaskCreate_NoValidator(body) ==
    LET title == Get(body, "title")
        description == Get(body, "description")
        status == Get(body, "status")
    IN  IF title # None /\ description # None
           /\ ("status" \in DOMAIN body => status # None)
        THEN Some([title |-> title[1],
                   description |-> description[1],
                   status |-> IF "status" \in DOMAIN body THEN status[1] ELSE "todo"])
        ELSE None

\* TaskCreate(**body): Some(task_data.dict()) or None on a ValidationError
TaskCreate(body) ==
    LET title == Get(body, "title")
        description == Get(body, "description")
        status == Get(body, "status")
        status_ok == IF "status" \in DOMAIN body
                     THEN status # None /\ status[1] \in TASK_STATUS
                     ELSE TRUE
    IN  IF title # None /\ description # None /\ status_ok
        THEN Some([title |-> title[1],
                   description |-> description[1],
                   status |-> IF "status" \in DOMAIN body THEN status[1] ELSE "todo"])
        ELSE None

\* TaskUpdate without its status validator
TaskUpdate_NoValidator(body) ==
    Some([title |-> Get(body, "title"),
          description |-> Get(body, "description"),
          status |-> Get(body, "status")])

\* TaskUpdate(**body): Some(update_data.dict()) or None on a ValidationError
TaskUpdate(body) ==
    LET status == Get(body, "status")
    IN  IF status # None /\ status[1] \notin TASK_STATUS
        THEN None
        ELSE Some([title |-> Get(body, "title"),
                   description |-> Get(body, "description"),
                   status |-> status])

-----------------------------------------------------------------------------
(* db.py: the repositories.  `fail` is TRUE when the driver raises in the   *)
(* call.  Each operation returns its result and the collection afterwards.  *)

\* A path id is <<"oid", n>> (24 hex digits naming ObjectId n) or <<"text", n>>
\* (any other string; <<"text", 0>> is the empty string).
ObjectId_is_valid(task_id) == task_id # None /\ task_id[1] = "oid"
ObjectId(task_id) == task_id[2]

WithId(id, doc) ==
    [k \in DOMAIN doc \cup {"_id"} |-> IF k = "_id" THEN id ELSE doc[k]]

\* TasksRepository.get_all
TasksRepository_get_all == {WithId(id, tasks[id]) : id \in DOMAIN tasks}

\* $setOnInsert in the place of $set: the fields the document has are kept
MongoSet_OnInsert(doc, update_data) ==
    [k \in DOMAIN doc \cup DOMAIN update_data |->
        IF k \in DOMAIN doc THEN doc[k] ELSE update_data[k]]

\* $set
MongoSet(doc, update_data) ==
    [k \in DOMAIN doc \cup DOMAIN update_data |->
        IF k \in DOMAIN update_data THEN update_data[k] ELSE doc[k]]

\* TasksRepository.create stamping updated_at as well
TasksRepository_create_Stamped(task_data) ==
    LET doc == MongoSet(task_data, [created_at |-> now, updated_at |-> Some(now)])
    IN  [result |-> WithId(nextId, doc),
         tasks |-> [id \in DOMAIN tasks \cup {nextId} |->
                       IF id = nextId THEN doc ELSE tasks[id]],
         nextId |-> nextId + 1,
         calls |-> <<"tasks.insert_one">>]

\* TasksRepository.create
TasksRepository_create(task_data) ==
    LET doc == MongoSet(task_data, [created_at |-> now, updated_at |-> None])
    IN  [result |-> WithId(nextId, doc),
         tasks |-> [id \in DOMAIN tasks \cup {nextId} |->
                       IF id = nextId THEN doc ELSE tasks[id]],
         nextId |-> nextId + 1,
         calls |-> <<"tasks.insert_one">>]

\* find_one_and_update with upsert=True
find_one_and_update_Upsert(id, update_data) ==
    LET old == IF id \in DOMAIN tasks THEN tasks[id]
               ELSE [title |-> "", description |-> "", status |-> "todo",
                     created_at |-> now, updated_at |-> None]
        doc == MongoSet(old, update_data)
    IN  [result |-> Some(WithId(id, doc)),
         tasks |-> [i \in DOMAIN tasks \cup {id} |-> IF i = id THEN doc ELSE tasks[i]]]

\* tasks_collection.find_one_and_update({"_id": id}, {"$set": update_data},
\* return_document=AFTER): one atomic step of the store on one document
find_one_and_update(id, update_data) ==
    IF id \in DOMAIN tasks
    THEN LET doc == MongoSet(tasks[id], update_data)
         IN  [result |-> Some(WithId(id, doc)),
              tasks |-> [tasks EXCEPT ![id] = doc]]
    ELSE [result |-> None, tasks |-> tasks]

\* update_data["updated_at"] = datetime.utcnow()
Stamped(update_dict) == MongoSet(update_dict, [updated_at |-> Some(now)])

\* TasksRepository.update
TasksRepository_update(task_id, update_dict) ==
    IF ~ObjectId_is_valid(task_id)
    THEN [result |-> None, tasks |-> tasks, calls |-> <<>>]
    ELSE LET r == find_one_and_update(ObjectId(task_id), Stamped(update_dict))
         IN  [result |-> r.result, tasks |-> r.tasks,
              calls |-> <<"tasks.find_one_and_update">>]

\* TasksRepository.delete returning deleted_count >= 0
TasksRepository_delete_AlwaysTrue(task_id) ==
    IF ~ObjectId_is_valid(task_id)
    THEN [result |-> FALSE, tasks |-> tasks, calls |-> <<>>]
    ELSE LET id == ObjectId(task_id)
         IN  [result |-> TRUE,
              tasks |-> [i \in DOMAIN tasks \ {id} |-> tasks[i]],
              calls |-> <<"tasks.delete_one">>]

\* TasksRepository.delete with delete_many in the place of delete_one
TasksRepository_delete_Many(task_id) ==
    IF ~ObjectId_is_valid(task_id)
    THEN [result |-> FALSE, tasks |-> tasks, calls |-> <<>>]
    ELSE LET id == ObjectId(task_id)
         IN  [result |-> id \in DOMAIN tasks,
              tasks |-> [i \in {j \in DOMAIN tasks : id \notin DOMAIN tasks} |-> tasks[i]],
              calls |-> <<"tasks.delete_one">>]

\* TasksRepository.delete
TasksRepository_delete(task_id) ==
    IF ~ObjectId_is_valid(task_id)
    THEN [result |-> FALSE, tasks |-> tasks, calls |-> <<>>]
    ELSE LET id == ObjectId(task_id)
         IN  [result |-> id \in DOMAIN tasks,
              tasks |-> [i \in DOMAIN tasks \ {id} |-> tasks[i]],
              calls |-> <<"tasks.delete_one">>]

\* UsersRepository.get_by_email
UsersRepository_get_by_email(email) ==
    IF \E u \in users : u.email = email
    THEN Some(CHOOSE u \in users : u.email = email)
    ELSE None

-----------------------------------------------------------------------------
(* auth.py *)

\* A token is its claim set and the key that signed it.
\* jwt.encode writes `exp` as a NumericDate: whole seconds since the epoch.
create_access_token(data) ==
    [sub |-> data.sub,
     exp |-> (now \div TicksPerSecond) + JWT_EXPIRATION * SecondsPerHour,
     key |-> JWT_SECRET]

\* jwt.decode with the expiration left unverified
verify_token_NoExp(tok) ==
    IF tok.key = JWT_SECRET
    THEN Some([sub |-> tok.sub, exp |-> tok.exp])
    ELSE None

\* jwt.decode: the signature must verify and `exp` must lie after the current
\* instant (ExpiredSignatureError when exp <= now); any PyJWTError gives None.
verify_token(tok) ==
    IF tok.key = JWT_SECRET /\ ~(tok.exp * TicksPerSecond <= now)
    THEN Some([sub |-> tok.sub, exp |-> tok.exp])
    ELSE None

\* The user document as stored
StripPassword_Nothing(user) == user

\* {k: v for k, v in user.items() if k != "password"}
StripPassword(user) == [k \in DOMAIN user \ {"password"} |-> user[k]]

\* authenticate_user without the comparison of passwords
authenticate_user_NoPassword(email, password, fail) ==
    IF fail = 1
    THEN [user |-> None, calls |-> <<"users.find_one">>, raised |-> TRUE]
    ELSE LET user == UsersRepository_get_by_email(email)
         IN  [user |-> IF user = None THEN None ELSE Some(StripPassword(user[1])),
              calls |-> <<"users.find_one">>,
              raised |-> FALSE]

\* authenticate_user: [user |-> Optional user, calls, raised]
authenticate_user(email, password, fail) ==
    IF fail = 1
    THEN [user |-> None, calls |-> <<"users.find_one">>, raised |-> TRUE]
    ELSE LET user == UsersRepository_get_by_email(email)
         IN  [user |-> IF user = None \/ user[1].password # password
                       THEN None
                       ELSE Some(StripPassword(user[1])),
              calls |-> <<"users.find_one">>,
              raised |-> FALSE]

\* The header string s is <<prefix, credential>>; "" is <<"", NoCredential>>.
NoCredential == [sub |-> "", exp |-> 0, key |-> ""]
EmptyString == <<"", NoCredential>>
\* startswith("Bearer"), without the space
StartsWithBearer_NoSpace(authorization) == authorization[1] \in {"Bearer ", "Bearer"}
\* authorization.startswith("Bearer ")
StartsWithBearer(authorization) == authorization[1] = "Bearer "
\* authorization.replace("Bearer ", "")
StripBearer(authorization) == authorization[2]

\* get_current_user: [user |-> Optional user, calls, raised]
get_current_user(authorization, fail) ==
    IF authorization = None \/ authorization = EmptyString
       \/ ~StartsWithBearer(authorization)
    THEN [user |-> None, calls |-> <<>>, raised |-> FALSE]
    ELSE LET payload == verify_token(StripBearer(authorization))
         IN  IF payload = None
             THEN [user |-> None, calls |-> <<>>, raised |-> FALSE]
             ELSE IF fail = 1
             THEN [user |-> None, calls |-> <<"users.find_one">>, raised |-> TRUE]
             ELSE LET user == UsersRepository_get_by_email(payload[1].sub)
                  IN  [user |-> IF user = None THEN None
                                ELSE Some(StripPassword(user[1])),
                       calls |-> <<"users.find_one">>,
                       raised |-> FALSE]

-----------------------------------------------------------------------------
(* main.py: each handler maps the event and the store to an outcome:        *)
(* the response, the task collection and id generator afterwards, and the   *)
(* store operations performed.  `fail` is the position, among the store     *)
(* operations of the request, of the one in which the driver raises (0: no  *)
(* store operation raises).                                                 *)

Outcome(r, t, n, c) == [resp |-> r, tasks |-> t, nextId |-> n, calls |-> c]

\* headers.get("Authorization") or headers.get("authorization")
AuthorizationOf(headers) ==
    LET a == Get(headers, "Authorization")
    IN  IF a = None \/ a = EmptyString THEN Get(headers, "authorization") ELSE a

\* require_auth's wrapper, up to the call of the wrapped function:
\* [resp |-> Some(response) when it returns or raises itself, user, calls]
require_auth(event, fail) ==
    LET authorization == AuthorizationOf(event.headers)
    IN  IF authorization = None \/ authorization = EmptyString
        THEN [resp |-> Some(error_response("Unauthorized: Missing authorization header", 401)),
              user |-> None, calls |-> <<>>]
        ELSE LET cu == get_current_user(authorization, fail)
             IN  IF cu.raised
                 THEN [resp |-> Some(Raised("get_current_user")),
                       user |-> None, calls |-> cu.calls]
                 ELSE IF cu.user = None
                 THEN [resp |-> Some(error_response("Unauthorized: Invalid token", 401)),
                       user |-> None, calls |-> cu.calls]
                 ELSE [resp |-> None, user |-> cu.user, calls |-> cu.calls]

get_tasks(event, fail) ==
    LET a == require_auth(event, fail)
    IN  IF a.resp # None THEN Outcome(a.resp[1], tasks, nextId, a.calls)
        ELSE IF fail = 2
        THEN Outcome(error_response("Error retrieving tasks", 500),
                     tasks, nextId, a.calls \o <<"tasks.find">>)
        ELSE Outcome(success_response(TasksRepository_get_all, 200),
                     tasks, nextId, a.calls \o <<"tasks.find">>)

create_task(event, fail) ==
    LET a == require_auth(event, fail)
        task_data == TaskCreate(parse_event_body(event.body))
    IN  IF a.resp # None THEN Outcome(a.resp[1], tasks, nextId, a.calls)
        ELSE IF task_data = None
        THEN Outcome(error_response("Invalid task data", 422), tasks, nextId, a.calls)
        ELSE LET r == TasksRepository_create(task_data[1])
             IN  IF fail = 2
                 THEN Outcome(error_response("Error creating task", 500),
                              tasks, nextId, a.calls \o r.calls)
                 ELSE Outcome(success_response(r.result, 201),
                              r.tasks, r.nextId, a.calls \o r.calls)

\* The comprehension with the default status of TaskBase filled in for None
NotNone_DefaultStatus(d) ==
    [k \in {x \in DOMAIN d : d[x] # None \/ x = "status"} |->
        IF d[k] # None THEN d[k][1] ELSE "todo"]

\* {k: v for k, v in update_data.dict().items() if v is not None}
NotNone(d) == [k \in {x \in DOMAIN d : d[x] # None} |-> d[k][1]]

update_task(event, fail) ==
    LET a == require_auth(event, fail)
        task_id == event.pathId
        update_data == TaskUpdate(parse_event_body(event.body))
    IN  IF a.resp # None THEN Outcome(a.resp[1], tasks, nextId, a.calls)
        ELSE IF task_id = None \/ task_id = <<"text", 0>>
        THEN Outcome(error_response("Task ID is required", 400), tasks, nextId, a.calls)
        ELSE IF update_data = None
        THEN Outcome(error_response("Invalid task data", 422), tasks, nextId, a.calls)
        ELSE LET r == TasksRepository_update(task_id, NotNone(update_data[1]))
             IN  IF fail = 2 /\ r.calls # <<>>
                 THEN Outcome(error_response("Error updating task", 500),
                              tasks, nextId, a.calls \o r.calls)
                 ELSE IF r.result = None
                 THEN Outcome(error_response("Task with ID {task_id} not found", 404),
                              r.tasks, nextId, a.calls \o r.calls)
                 ELSE Outcome(success_response(r.result[1], 200),
                              r.tasks, nextId, a.calls \o r.calls)

delete_task(event, fail) ==
    LET a == require_auth(event, fail)
        task_id == event.pathId
    IN  IF a.resp # None THEN Outcome(a.resp[1], tasks, nextId, a.calls)
        ELSE IF task_id = None \/ task_id = <<"text", 0>>
        THEN Outcome(error_response("Task ID is required", 400), tasks, nextId, a.calls)
        ELSE LET r == TasksRepository_delete(task_id)
             IN  IF fail = 2 /\ r.calls # <<>>
                 THEN Outcome(error_response("Error deleting task", 500),
                              tasks, nextId, a.calls \o r.calls)
                 ELSE IF ~r.result
                 THEN Outcome(error_response("Task with ID {task_id} not found", 404),
                              r.tasks, nextId, a.calls \o r.calls)
                 ELSE Outcome(success_response([message |-> "Task deleted successfully"], 200),
                              r.tasks, nextId, a.calls \o r.calls)

\* login: the outcome also carries the token handed to the client
login(event, fail) ==
    LET body == parse_event_body(event.body)
        email == Get(body, "email")
        password == Get(body, "password")
    IN  IF Falsy(email) \/ Falsy(password)
        THEN [resp |-> error_response("Email and password are required", 400),
              calls |-> <<>>]
        ELSE LET au == authenticate_user(email[1], password[1], fail)
             IN  IF au.raised
                 THEN [resp |-> error_response("Error during login", 500),
                       calls |-> au.calls]
                 ELSE IF au.user = None
                 THEN [resp |-> error_response("Invalid credentials", 401),
                       calls |-> au.calls]
                 ELSE [resp |-> success_response(
                                  [token |-> create_access_token([sub |-> au.user[1].email]),
                                   user |-> au.user[1]], 200),
                       calls |-> au.calls]

-----------------------------------------------------------------------------
(* api.py: the statistics route *)

\* tasks_collection.count_documents({"status": status}): pymongo returns an int
count_documents(status) == Cardinality({id \in DOMAIN tasks : tasks[id].status = status})

\* `await x` needs an awaitable; on an int it raises TypeError
IsAwaitable(x) == x \notin Int

ZeroStatistics == [todo |-> 0, inProgress |-> 0, completed |-> 0]

\* api_get_task_statistics: any exception inside the try gives the zero counts.
\* The first count_documents is called and its result awaited before the rest.
api_get_task_statistics(fail) ==
    LET todo_count == count_documents("todo")
        in_progress_count == count_documents("in_progress")
        completed_count == count_documents("completed")
    IN  IF fail = 1 \/ ~IsAwaitable(todo_count)
        THEN [resp |-> ZeroStatistics, calls |-> <<"tasks.count_documents">>]
        ELSE IF fail = 2 \/ ~IsAwaitable(in_progress_count)
        THEN [resp |-> ZeroStatistics,
              calls |-> <<"tasks.count_documents", "tasks.count_documents">>]
        ELSE IF fail = 3 \/ ~IsAwaitable(completed_count)
        THEN [resp |-> ZeroStatistics,
              calls |-> <<"tasks.count_documents", "tasks.count_documents",
                          "tasks.count_documents">>]
        ELSE [resp |-> [todo |-> todo_count,
                        inProgress |-> in_progress_count,
                        completed |-> completed_count],
              calls |-> <<"tasks.count_documents", "tasks.count_documents",
                          "tasks.count_documents">>]

-----------------------------------------------------------------------------
(* db.py: bootstrap *)

default_user ==
    [email |-> "admin@example.com", username |-> "admin",
     password |-> "password123", created_at |-> now]

default_tasks ==
    << [title |-> "Implementar autenticacion",
        description |-> "Crear sistema de login y registro para los usuarios",
        status |-> "completed", created_at |-> now, updated_at |-> None],
       [title |-> "Disenar interfaz de usuario",
        description |-> "Crear disenos de UI/UX para la aplicacion de gestion de tareas",
        status |-> "in_progress", created_at |-> now, updated_at |-> None],
       [title |-> "Configurar base de datos",
        description |-> "Configurar MongoDB y crear schemas necesarios",
        status |-> "todo", created_at |-> now, updated_at |-> None] >>

\* init_db inserting the default user without looking at the collection
init_db_AlwaysUser ==
    [users |-> users \cup {default_user},
     tasks |-> IF Cardinality(DOMAIN tasks) = 0
               THEN [id \in nextId .. nextId + Len(default_tasks) - 1 |->
                        default_tasks[id - nextId + 1]]
               ELSE tasks,
     nextId |-> IF Cardinality(DOMAIN tasks) = 0
                THEN nextId + Len(default_tasks) ELSE nextId]

\* init_db: [users, tasks, nextId] afterwards
init_db ==
    [users |-> IF Cardinality(users) = 0 THEN {default_user} ELSE users,
     tasks |-> IF Cardinality(DOMAIN tasks) = 0
               THEN [id \in nextId .. nextId + Len(default_tasks) - 1 |->
                        default_tasks[id - nextId + 1]]
               ELSE tasks,
     nextId |-> IF Cardinality(DOMAIN tasks) = 0
                THEN nextId + Len(default_tasks) ELSE nextId]

-----------------------------------------------------------------------------
(* The requests the environment sends *)

Absent == <<"absent", "absent">>

\* The JSON object with the given keys, less the absent ones
MkObj(f) == [k \in {x \in DOMAIN f : f[x] # Absent} |-> f[k]]

JsonText(obj) == [json |-> TRUE, obj |-> obj]
NotJson == [json |-> FALSE, obj |-> EmptyObj]

TaskObj(t, d, s) == MkObj([title |-> t, description |-> d, status |-> s])
LoginObj(e, p) == MkObj([email |-> e, password |-> p])

TitleValues == {Absent, None, Some(""), Some("A")}
DescriptionValues == {Absent, Some("D")}
StatusValues == {Absent, None, Some("in_progress"), Some("bogus")}

TaskBodies ==
    {JsonText(TaskObj(t, d, s)) :
        t \in TitleValues, d \in DescriptionValues, s \in StatusValues}
    \cup {NotJson}

EmailValues == {Absent, None, Some(""), Some("admin@example.com"),
                Some("bob@example.com"), Some("nobody@example.com")}
PasswordValues == {Absent, Some(""), Some("password123"), Some("hunter2")}

LoginBodies ==
    {JsonText(LoginObj(e, p)) : e \in EmailValues, p \in PasswordValues}
    \cup {NotJson}

\* path ids: none, the empty string, a string that is no ObjectId, a
\* well-formed id the store never generated, and the first generated id
PathIds == {None, <<"text", 0>>, <<"text", 1>>, <<"oid", 0>>, <<"oid", 1>>}

\* credentials: the token the client holds and one signed with another key
ForgedToken == [sub |-> "admin@example.com",
                exp |-> 10 * JWT_EXPIRATION * SecondsPerHour,
                key |-> "not-the-secret"]
HeldTokens == {token[i] : i \in DOMAIN token}
Credentials == HeldTokens \cup {ForgedToken}

\* "Bearer <token>"; the header map FastAPI hands over has lower-case keys
Bearer(c) == [authorization |-> <<"Bearer ", c>>]
HeldHeaders == {Bearer(c) : c \in HeldTokens}

\* no header, an empty one, and ones that do not start with "Bearer "
BadHeaders ==
    {EmptyObj, [Authorization |-> EmptyString], [authorization |-> EmptyString]}
    \cup {[Authorization |-> <<p, c>>] :
            p \in {"Basic ", "bearer ", "Bearer"}, c \in Credentials}

AllHeaders ==
    BadHeaders \cup {Bearer(c) : c \in Credentials}
    \cup {[Authorization |-> <<"Bearer ", c>>] : c \in Credentials}

Event(h, id, b) == [headers |-> h, pathId |-> id, body |-> b]

ProtectedHandlers == {"get_tasks", "create_task", "update_task", "delete_task"}

\* The outcome of handler h on an event
Handle(h, event, fail) ==
    CASE h = "get_tasks" -> get_tasks(event, fail)
      [] h = "create_task" -> create_task(event, fail)
      [] h = "update_task" -> update_task(event, fail)
      [] h = "delete_task" -> delete_task(event, fail)

-----------------------------------------------------------------------------
(* State machine *)

Bob == [email |-> "bob@example.com", username |-> "bob",
        password |-> "hunter2", created_at |-> 0]

\* Before the first start the store is empty, or holds a registered user
Init ==
    /\ users \in {{}, {Bob}}
    /\ tasks = EmptyObj
    /\ nextId = 1
    /\ now = 0
    /\ booted = FALSE
    /\ token = None
    /\ tokenIat = 0
    /\ handler = "none"
    /\ req = [event |-> Event(EmptyObj, None, NotJson), fail |-> 0]
    /\ resp = [statusCode |-> 0, body |-> EmptyObj]
    /\ calls = <<>>
    /\ requests = <<>>
    /\ applied = <<>>

\* import app.db: init_db() runs at every start of the process
InitDb ==
    /\ \E o \in {init_db} :
           /\ users' = o.users
           /\ tasks' = o.tasks
           /\ nextId' = o.nextId
    /\ booted' = TRUE
    /\ UNCHANGED <<now, token, tokenIat, handler, req, resp, calls, overlap>>

\* The lifetime of a token, and that lifetime less one tick, in ticks
Lifetime == JWT_EXPIRATION * SecondsPerHour * TicksPerSecond
LongStep == Lifetime - 1

\* Time passes: by one tick, or by one tick less than a token's lifetime
Tick(d) ==
    /\ booted
    /\ \/ d = 1 /\ now % LongStep < MaxTicks
       \/ d = LongStep /\ now \div LongStep < MaxJumps
    /\ now' = now + d
    /\ UNCHANGED <<users, tasks, nextId, booted, token, tokenIat, handler, req, resp, calls, overlap>>

\* A user document is removed from the store by its administrator
RemoveUser(u) ==
    /\ booted
    /\ u \in users
    /\ users' = users \ {u}
    /\ UNCHANGED <<tasks, nextId, now, booted, token, tokenIat, handler, req, resp, calls, overlap>>

\* One invocation of a protected handler
Call(h, event, fail) ==
    /\ booted
    /\ \E o \in {Handle(h, event, fail)} :
           /\ o.nextId <= Len(default_tasks) + MaxNewTasks + 1
           /\ handler' = h
           /\ req' = [event |-> event, fail |-> fail]
           /\ resp' = o.resp
           /\ tasks' = o.tasks
           /\ nextId' = o.nextId
           /\ calls' = o.calls
    /\ UNCHANGED <<users, now, booted, token, tokenIat, overlap>>

Call_get_tasks(event, fail) == Call("get_tasks", event, fail)
Call_create_task(event, fail) == Call("create_task", event, fail)
Call_update_task(event, fail) == Call("update_task", event, fail)
Call_delete_task(event, fail) == Call("delete_task", event, fail)

\* One invocation of login; the client keeps the token of a 200 response
Call_login(event, fail) ==
    /\ booted
    /\ \E o \in {login(event, fail)} :
           /\ handler' = "login"
           /\ req' = [event |-> event, fail |-> fail]
           /\ resp' = o.resp
           /\ calls' = o.calls
           /\ IF o.resp.statusCode = 200
              THEN token' = Some(o.resp.body.token) /\ tokenIat' = now
              ELSE UNCHANGED <<token, tokenIat>>
    /\ UNCHANGED <<users, tasks, nextId, now, booted, overlap>>

\* One request to the statistics route
Call_api_get_task_statistics(fail) ==
    /\ booted
    /\ \E o \in {api_get_task_statistics(fail)} :
           /\ handler' = "api_get_task_statistics"
           /\ req' = [event |-> Event(EmptyObj, None, NotJson), fail |-> fail]
           /\ resp' = [statusCode |-> 200, body |-> o.resp]
           /\ calls' = o.calls
    /\ UNCHANGED <<users, tasks, nextId, now, booted, token, tokenIat, overlap>>

(* The task flow: a client logs in and works on tasks with its token.  *)

FlowLogins ==
    {Event(EmptyObj, None, JsonText(LoginObj(Some(e), Some(p)))) :
        e \in {"admin@example.com"}, p \in {"password123", "hunter2"}}

FlowCreateBodies ==
    {JsonText(TaskObj(Some("A"), Some("D"), Absent)),
     JsonText(TaskObj(Some(""), Some("D"), Some("in_progress"))),
     JsonText(TaskObj(Absent, Some("D"), Absent)),
     JsonText(TaskObj(Some("A"), Some("D"), Some("bogus")))}

FlowUpdateBodies ==
    {JsonText(TaskObj(Absent, Absent, Absent)),
     JsonText(TaskObj(Some("A"), Absent, Absent)),
     JsonText(TaskObj(None, Absent, Some("in_progress"))),
     JsonText(TaskObj(Absent, Absent, Some("bogus")))}

FlowUpdates ==
    {Event(h, <<"oid", 1>>, b) : h \in HeldHeaders, b \in FlowUpdateBodies}
    \cup {Event(h, id, JsonText(TaskObj(Absent, Absent, Some("in_progress")))) :
            h \in HeldHeaders, id \in {None, <<"text", 1>>, <<"oid", 0>>}}
    \cup {Event(h, <<"oid", 0>>, JsonText(TaskObj(Absent, Absent, Some("bogus")))) :
            h \in HeldHeaders}

FlowDeleteIds == {None, <<"text", 1>>, <<"oid", 0>>, <<"oid", 1>>}

\* the requests during which the store raises
FlowFailing ==
    {Event(h, <<"oid", 1>>, JsonText(TaskObj(Some("A"), Some("D"), Absent))) :
        h \in HeldHeaders}

Next ==
    \/ InitDb
    \/ Tick(1)
    \/ \E e \in FlowLogins : Call_login(e, 0)
    \/ \E h \in HeldHeaders : Call_get_tasks(Event(h, None, NotJson), 0)
    \/ \E h \in HeldHeaders, b \in FlowCreateBodies : Call_create_task(Event(h, None, b), 0)
    \/ \E e \in FlowUpdates : Call_update_task(e, 0)
    \/ \E h \in HeldHeaders, id \in FlowDeleteIds : Call_delete_task(Event(h, id, NotJson), 0)
    \/ \E fail \in 0..1 : Call_api_get_task_statistics(fail)
    \/ \E e \in FlowLogins : Call_login(e, 1)
    \/ \E e \in FlowFailing, fail \in 1..2 :
          \/ Call_get_tasks(e, fail)
          \/ Call_create_task(e, fail)
          \/ Call_update_task(e, fail)
          \/ Call_delete_task(e, fail)

Spec == Init /\ [][Next]_vars

(* The auth flow: every header shape and login body, over a day and more. *)
(* Its task requests are ones that leave the task collection alone.       *)

AuthFlowEvents ==
    {Event(h, <<"oid", 0>>, NotJson) : h \in AllHeaders}
AuthFlowLogins == {Event(EmptyObj, None, b) : b \in LoginBodies}

NextAuth ==
    \/ InitDb
    \/ \E d \in {1, LongStep} : Tick(d)
    \/ \E u \in users : RemoveUser(u)
    \/ \E e \in AuthFlowLogins : Call_login(e, 0)
    \/ \E e \in AuthFlowEvents : Call_get_tasks(e, 0)
    \/ \E e \in AuthFlowEvents : Call_create_task(e, 0)
    \/ \E e \in AuthFlowEvents : Call_update_task(e, 0)
    \/ \E e \in AuthFlowEvents : Call_delete_task(e, 0)

SpecAuth == Init /\ [][NextAuth]_vars

(* Overlapping requests: several update_task and delete_task invocations  *)
(* run at once, in separate workers.  Each runs by itself up to its call   *)
(* of the store; the store performs the calls one at a time, in any order. *)

\* update_task up to the store call of TasksRepository.update: the response
\* if it returns before, else the id and the update data, stamped
update_task_begin(event) ==
    LET a == require_auth(event, 0)
        task_id == event.pathId
        update_data == TaskUpdate(parse_event_body(event.body))
    IN  IF a.resp # None THEN [resp |-> a.resp, task_id |-> None, update_data |-> EmptyObj]
        ELSE IF task_id = None \/ task_id = <<"text", 0>>
        THEN [resp |-> Some(error_response("Task ID is required", 400)),
              task_id |-> None, update_data |-> EmptyObj]
        ELSE IF update_data = None
        THEN [resp |-> Some(error_response("Invalid task data", 422)),
              task_id |-> None, update_data |-> EmptyObj]
        ELSE IF ~ObjectId_is_valid(task_id)
        THEN [resp |-> Some(error_response("Task with ID {task_id} not found", 404)),
              task_id |-> None, update_data |-> EmptyObj]
        ELSE [resp |-> None, task_id |-> task_id,
              update_data |-> Stamped(NotNone(update_data[1]))]

\* delete_task up to the store call of TasksRepository.delete
delete_task_begin(event) ==
    LET a == require_auth(event, 0)
        task_id == event.pathId
    IN  IF a.resp # None THEN [resp |-> a.resp, task_id |-> None, update_data |-> EmptyObj]
        ELSE IF task_id = None \/ task_id = <<"text", 0>>
        THEN [resp |-> Some(error_response("Task ID is required", 400)),
              task_id |-> None, update_data |-> EmptyObj]
        ELSE [resp |-> None, task_id |-> task_id, update_data |-> EmptyObj]

\* A request arrives and runs up to its store call
Begin(h, b) ==
    /\ booted
    /\ Len(requests) < MaxRequests
    /\ requests' = Append(requests,
            [handler |-> h, task_id |-> b.task_id, update_data |-> b.update_data,
             done |-> b.resp # None,
             resp |-> IF b.resp # None THEN b.resp[1] ELSE Raised("pending")])
    /\ UNCHANGED <<users, tasks, nextId, now, booted, token, tokenIat, handler, req,
                   resp, calls, applied>>

Begin_update_task(event) == \E b \in {update_task_begin(event)} : Begin("update_task", b)
Begin_delete_task(event) == \E b \in {delete_task_begin(event)} : Begin("delete_task", b)

\* The store performs the find_one_and_update of request i, and update_task
\* answers with its result
Finish_update_task(i) ==
    /\ i \in DOMAIN requests
    /\ requests[i].handler = "update_task" /\ ~requests[i].done
    /\ \E r \in {find_one_and_update(ObjectId(requests[i].task_id), requests[i].update_data)} :
           /\ tasks' = r.tasks
           /\ requests' = [requests EXCEPT ![i].done = TRUE,
                   ![i].resp = IF r.result = None
                               THEN error_response("Task with ID {task_id} not found", 404)
                               ELSE success_response(r.result[1], 200)]
           /\ applied' = IF r.result = None THEN applied
                         ELSE Append(applied, [id |-> ObjectId(requests[i].task_id),
                                               update_data |-> requests[i].update_data])
    /\ UNCHANGED <<users, nextId, now, booted, token, tokenIat, handler, req, resp, calls>>

\* The store performs the delete_one of request i, and delete_task answers
Finish_delete_task(i) ==
    /\ i \in DOMAIN requests
    /\ requests[i].handler = "delete_task" /\ ~requests[i].done
    /\ \E r \in {TasksRepository_delete(requests[i].task_id)} :
           /\ tasks' = r.tasks
           /\ requests' = [requests EXCEPT ![i].done = TRUE,
                   ![i].resp = IF ~r.result
                               THEN error_response("Task with ID {task_id} not found", 404)
                               ELSE success_response([message |-> "Task deleted successfully"], 200)]
    /\ UNCHANGED <<users, nextId, now, booted, token, tokenIat, handler, req, resp,
                   calls, applied>>

OverlapLogin ==
    Event(EmptyObj, None, JsonText(LoginObj(Some("admin@example.com"), Some("password123"))))

OverlapUpdateBodies ==
    {JsonText(TaskObj(Some("A"), Absent, Absent)),
     JsonText(TaskObj(Absent, Absent, Some("in_progress"))),
     JsonText(TaskObj(Some(""), Absent, Some("todo"))),
     JsonText(TaskObj(Absent, Absent, Some("bogus")))}

NextOverlap ==
    \/ InitDb
    \/ Tick(1)
    \/ Call_login(OverlapLogin, 0)
    \/ \E h \in HeldHeaders, b \in OverlapUpdateBodies :
          Begin_update_task(Event(h, <<"oid", 1>>, b))
    \/ \E h \in HeldHeaders : Begin_delete_task(Event(h, <<"oid", 1>>, NotJson))
    \/ \E i \in 1..MaxRequests : Finish_update_task(i)
    \/ \E i \in 1..MaxRequests : Finish_delete_task(i)

SpecOverlap == Init /\ [][NextOverlap]_vars

-----------------------------------------------------------------------------
(* Claims.  A claim about what a handler answers is stated of the outcome   *)
(* the handler has, in every reachable state, on every request of a set.    *)

\* Some requests with and without a usable body and path id
SomeBodies ==
    {NotJson,
     JsonText(TaskObj(Some("A"), Some("D"), Absent)),
     JsonText(TaskObj(Absent, Absent, Some("bogus")))}

\* C1: on every protected handler, a request whose Authorization header is
\* absent, empty or does not start with "Bearer " is answered 401, and no
\* operation on the store (tasks or users) is performed for it.
C1_NoBearerIs401BeforeStore ==
    \A h \in ProtectedHandlers, hd \in BadHeaders,
       id \in {<<"oid", 1>>, <<"text", 1>>}, b \in SomeBodies, fail \in 0..2 :
        \A o \in {Handle(h, Event(hd, id, b), fail)} :
            /\ o.resp.statusCode = 401
            /\ "error" \in DOMAIN o.resp.body
            /\ o.calls = <<>>
            /\ o.tasks = tasks
            /\ o.nextId = nextId

\* A request carrying the client's valid token behind the prefix "Basic " has
\* been answered 401 by delete_task without any store operation.
C1_Witness ==
    /\ handler = "delete_task"
    /\ req.event.headers \in BadHeaders
    /\ "Authorization" \in DOMAIN req.event.headers
    /\ req.event.headers["Authorization"][1] = "Basic "
    /\ req.event.headers["Authorization"][2] \in HeldTokens
    /\ verify_token(req.event.headers["Authorization"][2]) # None
    /\ resp.statusCode = 401
    /\ calls = <<>>

\* C2: login answers 400, without calling authenticate, when email or password
\* is missing or empty; else 200 with {token, user}, the token's subject being
\* the supplied email, when a user with that email and password is stored;
\* else 401.
C2_Login ==
    \A b \in LoginBodies :
        \A o \in {login(Event(EmptyObj, None, b), 0)} :
            LET obj == IF b.json THEN b.obj ELSE EmptyObj
                missing(k) == k \notin DOMAIN obj \/ obj[k] = None \/ obj[k] = Some("")
            IN  IF missing("email") \/ missing("password")
                THEN o.resp.statusCode = 400 /\ o.calls = <<>>
                ELSE IF \E u \in users : u.email = obj["email"][1]
                                         /\ u.password = obj["password"][1]
                THEN /\ o.resp.statusCode = 200
                     /\ DOMAIN o.resp.body = {"token", "user"}
                     /\ o.resp.body.token.sub = obj["email"][1]
                     /\ o.resp.body.user.email = obj["email"][1]
                ELSE o.resp.statusCode = 401

\* login has answered 200 to bob's credentials with a token whose subject is bob
C2_Witness ==
    /\ handler = "login"
    /\ resp.statusCode = 200
    /\ req.event.body.obj["email"] = Some("bob@example.com")
    /\ resp.body.token.sub = "bob@example.com"
    /\ token = Some(resp.body.token)

\* The request of handler h that presents the held token as "Bearer <token>"
WithHeldToken(h) == Handle(h, Event(Bearer(token[1]), <<"oid", 0>>, NotJson), 0)

UserResolves(email) == \E u \in users : u.email = email

\* C3 as claimed: the token of a successful login for e is accepted by every
\* protected handler exactly while less than 24 hours have passed since it was
\* issued and a user with email e exists, and is answered 401 otherwise.
C3_AcceptedExactly24Hours ==
    token # None =>
        \A h \in ProtectedHandlers :
            \A o \in {WithHeldToken(h)} :
                (o.resp.statusCode # 401)
                    <=> (now - tokenIat < Lifetime /\ UserResolves(token[1].sub))

\* C3 as amended: the token is accepted exactly while the current instant is
\* earlier than its expiration, which is the instant of issuance truncated to
\* whole seconds plus 24 hours, and a user with email e exists; otherwise the
\* answer is 401.  The decision reads the token, the clock and the user
\* collection only, and changes nothing.
C3_AcceptedUntilExp ==
    token # None =>
        \A h \in ProtectedHandlers :
            \A o \in {WithHeldToken(h)} :
                /\ (o.resp.statusCode # 401)
                    <=> (/\ now < (tokenIat \div TicksPerSecond) * TicksPerSecond + Lifetime
                         /\ UserResolves(token[1].sub))
                /\ o.resp.statusCode = 401 =>
                        /\ o.tasks = tasks
                        /\ o.calls \in {<<>>, <<"users.find_one">>}

\* The held token, issued between two whole seconds, has been answered 401
\* before 24 hours have passed since it was issued, its user still stored.
C3_Witness ==
    /\ token # None
    /\ handler \in ProtectedHandlers
    /\ req.event.headers = Bearer(token[1])
    /\ resp.statusCode = 401
    /\ tokenIat % TicksPerSecond # 0
    /\ now - tokenIat < Lifetime
    /\ UserResolves(token[1].sub)

\* An authenticated request: the header resolves to a stored user
Authenticated(hd) == require_auth(Event(hd, None, NotJson), 0).resp = None
AuthenticatedHeaders == {hd \in HeldHeaders : Authenticated(hd)}

\* Path ids that are present and not empty
GivenIds == PathIds \ {None, <<"text", 0>>}

\* What a request body says: the JSON object sent, and the fields it lacks
ObjectOf(b) == IF b.json THEN b.obj ELSE EmptyObj
Lacks(b, k) == k \notin DOMAIN ObjectOf(b) \/ ObjectOf(b)[k] = None
IsEmptyText(b, k) == k \in DOMAIN ObjectOf(b) /\ ObjectOf(b)[k] = Some("")
StatusOmitted(b) == "status" \notin DOMAIN ObjectOf(b)
StatusNull(b) == "status" \in DOMAIN ObjectOf(b) /\ ObjectOf(b)["status"] = None
StatusOutsideEnum(b) ==
    /\ "status" \in DOMAIN ObjectOf(b)
    /\ ObjectOf(b)["status"] # None
    /\ \A st \in {"todo", "in_progress", "completed"} : ObjectOf(b)["status"] # Some(st)

\* A body that passes create_task's validation: title and description are
\* there, and the status, if there, is one of the enumeration
ValidCreate(b) ==
    /\ ~Lacks(b, "title") /\ ~Lacks(b, "description")
    /\ ~StatusOutsideEnum(b) /\ ~StatusNull(b)

\* C4: every valid create_task request of an authenticated user is answered
\* 201; the record stored and returned has a generated id, status "todo" when
\* the status was omitted and the declared status otherwise, a created
\* timestamp that is set and a null updated timestamp.
C4_CreateValid ==
    \A hd \in AuthenticatedHeaders, b \in {x \in TaskBodies : ValidCreate(x)} :
            \A o \in {create_task(Event(hd, None, b), 0)} :
                /\ o.resp.statusCode = 201
                /\ o.resp.body["_id"] \notin DOMAIN tasks
                /\ DOMAIN o.tasks = DOMAIN tasks \cup {o.resp.body["_id"]}
                /\ \A k \in {"title", "description", "status", "created_at", "updated_at"} :
                        o.tasks[o.resp.body["_id"]][k] = o.resp.body[k]
                /\ o.resp.body.title = ObjectOf(b)["title"][1]
                /\ o.resp.body.description = ObjectOf(b)["description"][1]
                /\ o.resp.body.status = IF StatusOmitted(b) THEN "todo"
                                        ELSE ObjectOf(b)["status"][1]
                /\ o.resp.body.created_at = now
                /\ o.resp.body.updated_at = None

\* create_task has answered 201 to a request without status, after the clock
\* moved, and the task is stored as returned with status "todo"
C4_Witness ==
    /\ handler = "create_task"
    /\ resp.statusCode = 201
    /\ StatusOmitted(req.event.body)
    /\ resp.body["_id"] \in DOMAIN tasks
    /\ tasks[resp.body["_id"]].status = "todo"
    /\ tasks[resp.body["_id"]].created_at > 0
    /\ tasks[resp.body["_id"]].updated_at = None

\* C5: a create_task request that fails validation (title or description
\* missing, or status outside the enumeration) is answered 422, the store's
\* create is not invoked and the stored tasks are unchanged.
C5_CreateInvalid ==
    \A hd \in AuthenticatedHeaders, b \in {x \in TaskBodies : ~ValidCreate(x)} :
            \A o \in {create_task(Event(hd, None, b), 0)} :
                /\ o.resp.statusCode = 422
                /\ \A i \in DOMAIN o.calls : o.calls[i] # "tasks.insert_one"
                /\ o.tasks = tasks
                /\ o.nextId = nextId

\* create_task has answered 422 to a request with a title and a description
\* whose status is outside the enumeration
C5_Witness ==
    /\ handler = "create_task"
    /\ resp.statusCode = 422
    /\ ~Lacks(req.event.body, "title")
    /\ ~Lacks(req.event.body, "description")
    /\ StatusOutsideEnum(req.event.body)
    /\ calls = <<"users.find_one">>

\* C6 as claimed: a create_task request whose title or description is the
\* empty string is answered 422 and nothing is stored, so that no stored task
\* ever has an empty title.
C6_EmptyTextRejected ==
    /\ \A id \in DOMAIN tasks : tasks[id].title # ""
    /\ (/\ handler = "create_task"
        /\ \/ IsEmptyText(req.event.body, "title")
           \/ IsEmptyText(req.event.body, "description"))
        => resp.statusCode # 201

\* create_task has answered 201 to a request with an empty title and the task
\* is stored with that title
C6_Witness ==
    /\ handler = "create_task"
    /\ resp.statusCode = 201
    /\ IsEmptyText(req.event.body, "title")
    /\ tasks[resp.body["_id"]].title = ""

\* The path ids that resolve to a stored task
Resolved == {id \in GivenIds : id[1] = "oid" /\ id[2] \in DOMAIN tasks}

\* The fields of a task that an update request provides: those it holds
\* with a value other than null
Provided(b) == {k \in {"title", "description", "status"} : ~Lacks(b, k)}

\* C7: a successful update_task with any subset of {title, description,
\* status}, the empty one and fields sent as null included, leaves every field
\* of the record that the request does not provide as it was, the id and the
\* created timestamp among them; the provided fields take the values sent, the
\* updated timestamp is set, and no other task changes.
C7_UpdateFrame ==
    \A hd \in HeldHeaders, id \in Resolved, b \in TaskBodies :
        \A o \in {update_task(Event(hd, id, b), 0)} :
            o.resp.statusCode = 200 =>
                /\ DOMAIN o.tasks = DOMAIN tasks
                /\ \A j \in DOMAIN tasks \ {id[2]} : o.tasks[j] = tasks[j]
                /\ DOMAIN o.tasks[id[2]] = DOMAIN tasks[id[2]]
                /\ \A k \in DOMAIN tasks[id[2]] \ (Provided(b) \cup {"updated_at"}) :
                        o.tasks[id[2]][k] = tasks[id[2]][k]
                /\ \A k \in Provided(b) : o.tasks[id[2]][k] = ObjectOf(b)[k][1]
                /\ o.tasks[id[2]].updated_at = Some(now)
                /\ o.resp.body["_id"] = id[2]

\* update_task has answered 200 to a request with a null title and a status,
\* later than the task was created: the stored task has the new status and
\* the title and created timestamp it was seeded with
C7_Witness ==
    /\ handler = "update_task"
    /\ resp.statusCode = 200
    /\ req.event.pathId = <<"oid", 1>>
    /\ "title" \in DOMAIN req.event.body.obj
    /\ req.event.body.obj["title"] = None
    /\ tasks[1].title = default_tasks[1].title
    /\ tasks[1].status = "in_progress"
    /\ tasks[1].created_at = 0
    /\ tasks[1].updated_at = Some(now)
    /\ now > 0

\* The path ids that resolve to no task: malformed ones, and well-formed ones
\* the collection does not hold (never created, or deleted)
Unresolved == GivenIds \ Resolved

\* Path ids that never resolve: a string that is no ObjectId, and a
\* well-formed id that the store never generates
NeverStored == {<<"text", 1>>, <<"oid", 0>>}

\* C8 as claimed: for an authenticated request, update_task or delete_task on
\* an id that resolves to no task is answered 404, whatever the body holds.
C8_Unresolved404 ==
    (/\ handler \in {"update_task", "delete_task"}
     /\ req.event.pathId \in NeverStored
     /\ req.fail = 0
     /\ resp.statusCode # 401)
        => resp.statusCode = 404

\* C8 as amended: for an authenticated request on an id that resolves to no
\* task, delete_task is answered 404; update_task is answered 404 when its
\* body passes validation and 422 when the body's status is outside the
\* enumeration; neither is answered 500, and no task changes.
C8_Unresolved404Or422 ==
    \A hd \in AuthenticatedHeaders, id \in Unresolved :
        /\ \A b \in TaskBodies :
            \A o \in {update_task(Event(hd, id, b), 0)} :
                /\ o.resp.statusCode = IF StatusOutsideEnum(b) THEN 422 ELSE 404
                /\ o.tasks = tasks
        /\ \A o \in {delete_task(Event(hd, id, NotJson), 0)} :
                /\ o.resp.statusCode = 404
                /\ o.tasks = tasks

\* update_task has answered 422 to a request on an id that resolves to no task
C8_Witness ==
    /\ handler = "update_task"
    /\ req.event.pathId \in Unresolved
    /\ StatusOutsideEnum(req.event.body)
    /\ resp.statusCode = 422

\* C9: every stored task has a status of the enumeration, in every reachable
\* state; an update_task whose status is outside the enumeration is answered
\* 422 and changes no stored record.
C9_StatusInEnum ==
    /\ \A id \in DOMAIN tasks : tasks[id].status \in {"todo", "in_progress", "completed"}
    /\ \A hd \in AuthenticatedHeaders, id \in GivenIds,
          b \in {x \in TaskBodies : StatusOutsideEnum(x)} :
            \A o \in {update_task(Event(hd, id, b), 0)} :
                o.resp.statusCode = 422 /\ o.tasks = tasks

\* update_task has answered 422 to a request on a stored task whose status is
\* outside the enumeration
C9_Witness ==
    /\ handler = "update_task"
    /\ req.event.pathId = <<"oid", 1>>
    /\ 1 \in DOMAIN tasks
    /\ StatusOutsideEnum(req.event.body)
    /\ resp.statusCode = 422
    /\ calls = <<"users.find_one">>

\* The number of stored tasks with each status
ExactStatistics ==
    [todo |-> Cardinality({id \in DOMAIN tasks : tasks[id].status = "todo"}),
     inProgress |-> Cardinality({id \in DOMAIN tasks : tasks[id].status = "in_progress"}),
     completed |-> Cardinality({id \in DOMAIN tasks : tasks[id].status = "completed"})]

\* C10: the statistics route answers {todo: 0, inProgress: 0, completed: 0}
\* when the store raises, and otherwise the exact number of stored tasks of
\* each status.
C10_Statistics ==
    /\ \A fail \in 1..3 : api_get_task_statistics(fail).resp = ZeroStatistics
    /\ api_get_task_statistics(0).resp = ExactStatistics

\* the statistics route has answered zero counts while the store, which did
\* not raise, holds one task of each status
C10_Witness ==
    /\ handler = "api_get_task_statistics"
    /\ req.fail = 0
    /\ ExactStatistics = [todo |-> 1, inProgress |-> 1, completed |-> 1]
    /\ resp.body = ZeroStatistics

\* The store raised during the last request: the operation numbered req.fail
\* was reached
StoreRaised == req.fail # 0 /\ Len(calls) = req.fail

\* C11 as claimed: on every protected handler and on login, a store failure at
\* any point of the request, the user lookup that resolves the bearer token
\* included, is answered 500 in the envelope {"error": {"message": ...}}; no
\* exception leaves the handler.
C11_StoreFailureIs500 ==
    (handler \in ProtectedHandlers \cup {"login"} /\ StoreRaised) =>
        /\ resp.statusCode = 500
        /\ DOMAIN resp.body = {"error"}
        /\ DOMAIN resp.body.error = {"message"}

\* The user lookup of get_current_user raised while a protected handler was
\* resolving a valid token, and the exception left the handler: no response
\* was formatted
C11_Witness ==
    /\ handler \in ProtectedHandlers
    /\ req.fail = 1
    /\ verify_token(req.event.headers["authorization"][2]) # None
    /\ calls = <<"users.find_one">>
    /\ resp = Raised("get_current_user")

\* C12: init_db inserts exactly one default user if the user collection is
\* empty and exactly three default tasks, one of each status, if the task
\* collection is empty; a collection that is not empty is left as it is, so
\* that init_db run again after seeding adds nothing.
C12_Bootstrap ==
    \A o \in {init_db} :
        /\ users = {} =>
                /\ Cardinality(o.users) = 1
                /\ \A u \in o.users : u.email = "admin@example.com"
        /\ users # {} => o.users = users
        /\ DOMAIN tasks = {} =>
                /\ Cardinality(DOMAIN o.tasks) = 3
                /\ \A st \in TASK_STATUS :
                        Cardinality({id \in DOMAIN o.tasks : o.tasks[id].status = st}) = 1
        /\ DOMAIN tasks # {} => (o.tasks = tasks /\ o.nextId = nextId)
        /\ booted /\ users # {} => (o.users = users /\ o.tasks = tasks)

\* init_db has run on a store that held a registered user and no task: the
\* user collection is as it was and three tasks are stored
C12_Witness ==
    /\ booted
    /\ users = {Bob}
    /\ Cardinality(DOMAIN tasks) = 3
    /\ {tasks[id].status : id \in DOMAIN tasks} = TASK_STATUS

\* The updates applied to task id that included field k, by position in the
\* order in which the store applied them
AppliedTo(id, k) ==
    {n \in DOMAIN applied : applied[n].id = id /\ k \in DOMAIN applied[n].update_data}

Last(S) == CHOOSE n \in S : \A m \in S : m <= n

\* The overlapping update_task requests that were answered 200
UpdatesDone ==
    {i \in DOMAIN requests : /\ requests[i].handler = "update_task"
                             /\ requests[i].done
                             /\ requests[i].resp.statusCode = 200}

\* C13: however update requests for one task interleave, each is applied as
\* one step on the document and the last write wins: every field of the
\* stored task holds the value of the last applied update that included the
\* field, or the value it had before if none did; every update answered 200
\* has been applied, whole, and was answered with the fields it sent.
C13_LastWriteWins ==
    /\ \A id \in DOMAIN tasks :
        \A k \in {"title", "description", "status", "updated_at"} :
            tasks[id][k] = IF AppliedTo(id, k) = {}
                           THEN default_tasks[id][k]
                           ELSE applied[Last(AppliedTo(id, k))].update_data[k]
    /\ \A i \in UpdatesDone :
        /\ \E n \in DOMAIN applied :
                /\ applied[n].id = ObjectId(requests[i].task_id)
                /\ applied[n].update_data = requests[i].update_data
        /\ \A k \in DOMAIN requests[i].update_data :
                requests[i].resp.body[k] = requests[i].update_data[k]
    /\ Len(applied) = Cardinality(UpdatesDone)

\* Two updates of one task overlapped, the one that arrived first being
\* applied second; one sent the title only and the other the status only, and
\* the stored task has both values
C13_Witness ==
    /\ Len(applied) = 2
    /\ {1, 2} \subseteq UpdatesDone
    /\ applied[1].update_data = requests[2].update_data
    /\ applied[2].update_data = requests[1].update_data
    /\ DOMAIN requests[1].update_data = {"title", "updated_at"}
    /\ DOMAIN requests[2].update_data = {"status", "updated_at"}
    /\ 1 \in DOMAIN tasks
    /\ tasks[1].title = "A"
    /\ tasks[1].status = "in_progress"

\* A complete user without its password: every field of a stored user but
\* the password, with the stored values
StrippedUser(v) ==
    /\ "password" \notin DOMAIN v
    /\ \E u \in users :
            /\ DOMAIN v = DOMAIN u \ {"password"}
            /\ \A k \in DOMAIN v : v[k] = u[k]

\* C14: the user that authenticate_user and get_current_user return, and the
\* one in the body of a 200 response of login, never holds the password;
\* the two operations return a complete user without its password or none,
\* never a part of a user.
C14_NoPassword ==
    /\ \A e \in {"admin@example.com", "bob@example.com", "nobody@example.com"},
          p \in {"password123", "hunter2", ""}, fail \in 0..1 :
            \A au \in {authenticate_user(e, p, fail)} :
                au.user = None \/ StrippedUser(au.user[1])
    /\ \A hd \in AllHeaders, fail \in 0..1 :
            \A cu \in {get_current_user(AuthorizationOf(hd), fail)} :
                cu.user = None \/ StrippedUser(cu.user[1])
    /\ \A b \in LoginBodies :
            \A o \in {login(Event(EmptyObj, None, b), 0)} :
                o.resp.statusCode = 200 => StrippedUser(o.resp.body.user)

\* login has answered 200 with a user that has every field of the stored
\* one, which holds a password, but the password
C14_Witness ==
    /\ handler = "login"
    /\ resp.statusCode = 200
    /\ StrippedUser(resp.body.user)
    /\ \E u \in users : /\ u.email = resp.body.user.email
                         /\ "password" \in DOMAIN u
                         /\ DOMAIN u = DOMAIN resp.body.user \cup {"password"}

\* C15 as claimed: the updated timestamp of a task is null until the first
\* successful update_task on it; every successful update_task sets it to the
\* time of that update, so that from one update to the next it never goes
\* back and is never reset to null.
C15_UpdatedAtAdvances ==
    [][\A id \in DOMAIN tasks \cap DOMAIN tasks' :
          /\ tasks[id].updated_at = None =>
                (tasks'[id].updated_at = None \/ tasks'[id] # tasks[id])
          /\ tasks[id].updated_at # None =>
                /\ tasks'[id].updated_at # None
                /\ tasks'[id].updated_at[1] >= tasks[id].updated_at[1]]_vars

\* Two updates of one task overlapped; the one applied last had read the
\* clock first, and the task is stored with an updated timestamp earlier than
\* the one it had before
C15_Witness ==
    \E n \in DOMAIN applied : \E m \in DOMAIN applied :
        /\ m = n + 1
        /\ applied[m].id = applied[n].id
        /\ applied[m].update_data.updated_at[1] < applied[n].update_data.updated_at[1]
        /\ applied[m].id \in DOMAIN tasks
        /\ tasks[applied[m].id].updated_at = applied[m].update_data.updated_at
        /\ Len(applied) = m

\* The ids the store generated for tasks that are stored no more: the
\* deleted ones, as the store never generates an id twice
DeletedIds == (1..(nextId - 1)) \ DOMAIN tasks

\* A successful delete_task on a stored task: 200 with a message, that task
\* removed and every other task as it was
DeleteRemovesOne ==
    \A hd \in AuthenticatedHeaders, id \in DOMAIN tasks :
        \A o \in {delete_task(Event(hd, <<"oid", id>>, NotJson), 0)} :
            /\ o.resp.statusCode = 200
            /\ DOMAIN o.resp.body = {"message"}
            /\ DOMAIN o.tasks = DOMAIN tasks \ {id}
            /\ \A j \in DOMAIN o.tasks : o.tasks[j] = tasks[j]

\* get_tasks does not list a deleted task, and a further delete_task on its
\* id is answered 404
DeletedStaysDeleted ==
    \A hd \in AuthenticatedHeaders, id \in DeletedIds :
        /\ \A o \in {get_tasks(Event(hd, None, NotJson), 0)} :
                /\ o.resp.statusCode = 200
                /\ \A t \in o.resp.body : t["_id"] # id
        /\ \A o \in {delete_task(Event(hd, <<"oid", id>>, NotJson), 0)} :
                o.resp.statusCode = 404 /\ o.tasks = tasks

\* C16 as claimed: a successful delete_task on a stored id answers 200 with a
\* message, removes that task and no other; afterwards get_tasks does not
\* list it and every further update_task or delete_task on the id is
\* answered 404.
C16_DeletedThen404 ==
    /\ DeleteRemovesOne
    /\ DeletedStaysDeleted
    /\ (/\ handler = "update_task"
        /\ req.fail = 0
        /\ resp.statusCode # 401
        /\ req.event.pathId \in {<<"oid", id>> : id \in DeletedIds})
            => resp.statusCode = 404

\* C16 as amended: as claimed for delete_task and get_tasks; a further
\* update_task on the id is answered 404 when its body passes validation and
\* 422 when the body's status is outside the enumeration, and re-creates
\* nothing.
C16_DeletedThen404Or422 ==
    /\ DeleteRemovesOne
    /\ DeletedStaysDeleted
    /\ \A hd \in AuthenticatedHeaders, id \in DeletedIds, b \in FlowUpdateBodies \cup SomeBodies :
            \A o \in {update_task(Event(hd, <<"oid", id>>, b), 0)} :
                /\ o.resp.statusCode = IF StatusOutsideEnum(b) THEN 422 ELSE 404
                /\ o.tasks = tasks

\* After a task was deleted, a further delete_task on its id has been
\* answered 404; the other seeded tasks are stored
C16_Witness ==
    /\ handler = "delete_task"
    /\ req.event.pathId = <<"oid", 1>>
    /\ 1 \in DeletedIds
    /\ resp.statusCode = 404
    /\ {2, 3} \subseteq DOMAIN tasks

\* The overlapping requests of handler h whose store call was performed
StoreCallDone(h) ==
    {i \in DOMAIN requests : /\ requests[i].handler = h
                             /\ requests[i].done
                             /\ requests[i].task_id # None}

\* The delete_task requests that removed the task of request i
DeletesOf(i) ==
    {d \in StoreCallDone("delete_task") :
        /\ requests[d].task_id = requests[i].task_id
        /\ requests[d].resp.statusCode = 200}

\* C17: when update_task and delete_task on one stored task overlap, the
\* update is applied before the delete and answered 200, or finds no record
\* and is answered 404; in both orders the task is absent once both are
\* done: an update never re-creates a deleted task.
C17_UpdateNeverRecreates ==
    /\ \A d \in StoreCallDone("delete_task") :
            /\ requests[d].resp.statusCode \in {200, 404}
            /\ requests[d].resp.statusCode = 200 =>
                    ObjectId(requests[d].task_id) \notin DOMAIN tasks
            /\ Cardinality(DeletesOf(d)) <= 1
    /\ \A u \in StoreCallDone("update_task") :
            /\ requests[u].resp.statusCode \in {200, 404}
            /\ requests[u].resp.statusCode = 200 <=> u \in UpdatesDone
            /\ requests[u].resp.statusCode = 404 => DeletesOf(u) # {}
            /\ DeletesOf(u) # {} => ObjectId(requests[u].task_id) \notin DOMAIN tasks
    /\ booted => DOMAIN tasks \subseteq DOMAIN default_tasks

\* An update_task arrived, then a delete_task on the same task; the delete
\* was performed first and answered 200, the update found no record and was
\* answered 404, and the task is absent
C17_Witness ==
    /\ Len(requests) >= 2
    /\ requests[1].handler = "update_task"
    /\ requests[2].handler = "delete_task"
    /\ requests[1].task_id = requests[2].task_id
    /\ 1 \in StoreCallDone("update_task")
    /\ 2 \in StoreCallDone("delete_task")
    /\ requests[2].resp.statusCode = 200
    /\ requests[1].resp.statusCode = 404
    /\ ObjectId(requests[1].task_id) \notin DOMAIN tasks

====
